---- MODULE Spec2Model ----
(***************************************************************************)
(* Model of src/src/dup2.cpp: begin_redirect_stderr / end_redirect_stderr  *)
(* over a POSIX descriptor table.  The kernel state is the descriptor      *)
(* table (fdt), the open file descriptions (oft: node, O_APPEND flag,      *)
(* offset) and the file system (fs).  Each system call is an operator on   *)
(* a kernel record k = [fdt, oft, fs] returning [k, ret, errno]; the two   *)
(* exported functions compose them in the order of the source.             *)
(***************************************************************************)
EXTENDS Integers, Sequences, FiniteSets, TLC

\* ------------------------------------------------------------------ bounds
\* size of the descriptor table (descriptors 0 .. MaxFd-1)
MaxFd == 6
\* longest file content tracked
MaxLen == 2
\* deepest nesting of begin calls whose token the caller still holds
MaxNest == 2
\* longest run of calls explored
MaxOps == 4
\* number of leading calls in which the OS may interrupt a dup2 or report
\* an I/O error from a close
MaxFaultOps == 2

\* ------------------------------------------------------- program constants
STDERR_FILENO == 2
EINTR == 4
EIO == 5
EBADF == 9
EMFILE == 24
ENOENT == 2

O_WRONLY == "O_WRONLY"
O_CREAT == "O_CREAT"
O_APPEND == "O_APPEND"
O_TRUNC == "O_TRUNC"

\* ------------------------------------------------------------- the universe
FDs == 0 .. (MaxFd - 1)
OfdIds == 1 .. MaxFd
NoOfd == 0
Chars == {"a", "b"}
\* the terminal the process starts with, and two regular files
Tty == "tty"
Files == {"P1", "P2"}
\* a path whose directory does not exist
NoDirPath == "nodir/P"
Paths == Files \cup {NoDirPath}
Nodes == Files \cup {Tty}
FreeOfd == [node |-> "none", app |-> FALSE, pos |-> 0]
Absent == [ex |-> FALSE, data |-> << >>]

\* mode strings handed to get_oflag(String) by code calling it directly
ModeStrings == {"w", "a", "", "W", "A", "wa", "r"}
\* the value returned after the stop() of get_oflag(String)
Fallback == {"-1"}
Threads == {1, 2}

VARIABLES fdt, oft, fs, last, sess, nops, thr, mtx, res
vars == <<fdt, oft, fs, last, sess, nops, thr, mtx, res>>

K == [fdt |-> fdt, oft |-> oft, fs |-> fs]

IsOpen(k, fd) == fd \in FDs /\ k.fdt[fd] # NoOfd
OpenFds(k) == {fd \in FDs : k.fdt[fd] # NoOfd}
MinOf(S) == CHOOSE x \in S : \A y \in S : x <= y

\* an open file description lives as long as some descriptor refers to it
Release(k) ==
  [k EXCEPT !.oft = [o \in OfdIds |->
      IF \E fd \in FDs : k.fdt[fd] = o THEN k.oft[o] ELSE FreeOfd]]

SysRes(k, ret, errno) == [k |-> k, ret |-> ret, errno |-> errno]

\* dup(2): lowest free descriptor, same open file description
sys_dup(k, fd) ==
  IF ~IsOpen(k, fd) THEN SysRes(k, -1, EBADF)
  ELSE IF OpenFds(k) = FDs THEN SysRes(k, -1, EMFILE)
  ELSE LET n == MinOf(FDs \ OpenFds(k))
       IN SysRes([k EXCEPT !.fdt[n] = k.fdt[fd]], n, 0)

\* open(2) with the flags the program uses
sys_open(k, path, oflag) ==
  IF OpenFds(k) = FDs THEN SysRes(k, -1, EMFILE)
  ELSE IF path \notin Files THEN SysRes(k, -1, ENOENT)
  ELSE IF ~k.fs[path].ex /\ O_CREAT \notin oflag THEN SysRes(k, -1, ENOENT)
  ELSE LET n == MinOf(FDs \ OpenFds(k))
           o == MinOf({i \in OfdIds : \A fd \in FDs : k.fdt[fd] # i})
           f == IF ~k.fs[path].ex \/ O_TRUNC \in oflag
                THEN [ex |-> TRUE, data |-> << >>]
                ELSE k.fs[path]
       IN SysRes([fdt |-> [k.fdt EXCEPT ![n] = o],
                  oft |-> [k.oft EXCEPT ![o] =
                             [node |-> path, app |-> (O_APPEND \in oflag),
                              pos |-> 0]],
                  fs |-> [k.fs EXCEPT ![path] = f]], n, 0)

\* dup2(2) releasing newfd before oldfd has been validated
sys_dup2_closefirst(k, oldfd, newfd, intr) ==
  IF newfd \notin FDs THEN SysRes(k, -1, EBADF)
  ELSE IF ~IsOpen(k, oldfd)
  THEN SysRes(Release([k EXCEPT !.fdt[newfd] = NoOfd]), -1, EBADF)
  ELSE IF intr THEN SysRes(k, -1, EINTR)
  ELSE IF oldfd = newfd THEN SysRes(k, newfd, 0)
  ELSE SysRes(Release([k EXCEPT !.fdt[newfd] = k.fdt[oldfd]]), newfd, 0)

\* dup2(2); intr is the OS interrupting the call (EINTR)
sys_dup2(k, oldfd, newfd, intr) ==
  IF ~IsOpen(k, oldfd) \/ newfd \notin FDs THEN SysRes(k, -1, EBADF)
  ELSE IF intr THEN SysRes(k, -1, EINTR)
  ELSE IF oldfd = newfd THEN SysRes(k, newfd, 0)
  ELSE SysRes(Release([k EXCEPT !.fdt[newfd] = k.fdt[oldfd]]), newfd, 0)

\* close(2); eio is the OS reporting an I/O error, the descriptor being
\* released all the same
sys_close(k, fd, eio) ==
  IF ~IsOpen(k, fd) THEN SysRes(k, -1, EBADF)
  ELSE SysRes(Release([k EXCEPT !.fdt[fd] = NoOfd]),
              IF eio THEN -1 ELSE 0, IF eio THEN EIO ELSE 0)

\* write(2) of text through descriptor fd
sys_write(k, fd, text) ==
  IF ~IsOpen(k, fd) THEN SysRes(k, -1, EBADF)
  ELSE LET o == k.fdt[fd]
           e == k.oft[o]
           d == k.fs[e.node].data
           at == IF e.app THEN Len(d) ELSE e.pos
           nd == SubSeq(d, 1, at) \o text
                   \o SubSeq(d, at + Len(text) + 1, Len(d))
       IN SysRes([k EXCEPT !.fs[e.node].data = nd,
                           !.oft[o].pos = at + Len(text)], Len(text), 0)

\* ------------------------------------------------------------ the program
\* get_oflag(String mode) with O_APPEND forgotten for "a"
get_oflag_mode_noappend(mode) ==
  IF mode = "w" THEN [stop |-> FALSE, oflag |-> {O_WRONLY, O_CREAT}]
  ELSE IF mode = "a" THEN [stop |-> FALSE, oflag |-> {O_WRONLY}]
  ELSE [stop |-> TRUE, oflag |-> Fallback]

\* get_oflag(String mode): the flags for "w" and "a", stop() otherwise
get_oflag_mode(mode) ==
  IF mode = "w" THEN [stop |-> FALSE, oflag |-> {O_WRONLY, O_CREAT}]
  ELSE IF mode = "a" THEN [stop |-> FALSE, oflag |-> {O_WRONLY, O_APPEND}]
  ELSE [stop |-> TRUE, oflag |-> Fallback]

\* get_oflag(bool append) with the mode string of append misspelt
get_oflag_typo(append) ==
  LET mode == IF append THEN "A" ELSE "w"
  IN get_oflag_mode(mode)

\* get_oflag(bool append)
get_oflag(append) ==
  LET mode == IF append THEN "a" ELSE "w"
  IN get_oflag_mode(mode)

\* stop(...): the call raises, nothing is returned
Stop(k, sys, errno) ==
  [k |-> k, ret |-> << >>, err |-> sys, errno |-> errno, unchecked |-> 0]
Return(k, v) ==
  [k |-> k, ret |-> <<v>>, err |-> "none", errno |-> 0, unchecked |-> 0]
\* close(..); return v: the result c of the close is not looked at by the
\* program; unchecked keeps it for the record
ReturnAfter(c, v) == [Return(c.k, v) EXCEPT !.unchecked = c.ret]

\* variants of begin_redirect_stderr with one slip each
begin_redirect_stderr_swapped(k, filepath, append, intr, eio) ==
  LET d == sys_dup(k, STDERR_FILENO)
  IN IF d.ret < 0 THEN Stop(d.k, "dup", d.errno)
     ELSE LET m == get_oflag(append)
          IN IF m.stop THEN Stop(d.k, "mode", 0)
             ELSE LET o == sys_open(d.k, filepath, m.oflag)
                  IN IF o.ret < 0 THEN Stop(o.k, "open", o.errno)
                     ELSE LET r == sys_dup2(o.k, STDERR_FILENO, o.ret, intr)
                          IN IF r.ret < 0 THEN Stop(r.k, "dup2", r.errno)
                             ELSE ReturnAfter(sys_close(r.k, o.ret, eio), d.ret)

begin_redirect_stderr_dupstdout(k, filepath, append, intr, eio) ==
  LET d == sys_dup(k, 1)
  IN IF d.ret < 0 THEN Stop(d.k, "dup", d.errno)
     ELSE LET m == get_oflag(append)
          IN IF m.stop THEN Stop(d.k, "mode", 0)
             ELSE LET o == sys_open(d.k, filepath, m.oflag)
                  IN IF o.ret < 0 THEN Stop(o.k, "open", o.errno)
                     ELSE LET r == sys_dup2(o.k, o.ret, STDERR_FILENO, intr)
                          IN IF r.ret < 0 THEN Stop(r.k, "dup2", r.errno)
                             ELSE ReturnAfter(sys_close(r.k, o.ret, eio), d.ret)

begin_redirect_stderr_nofdcheck(k, filepath, append, intr, eio) ==
  LET d == sys_dup(k, STDERR_FILENO)
  IN IF d.ret < 0 THEN Stop(d.k, "dup", d.errno)
     ELSE LET m == get_oflag(append)
          IN IF m.stop THEN Stop(d.k, "mode", 0)
             ELSE LET o == sys_open(d.k, filepath, m.oflag)
                      r == sys_dup2(o.k, o.ret, STDERR_FILENO, intr)
                  IN IF r.ret < 0 THEN Stop(r.k, "dup2", r.errno)
                     ELSE ReturnAfter(sys_close(r.k, o.ret, eio), d.ret)

begin_redirect_stderr_cleanup(k, filepath, append, intr, eio) ==
  LET d == sys_dup(k, STDERR_FILENO)
  IN IF d.ret < 0 THEN Stop(d.k, "dup", d.errno)
     ELSE LET m == get_oflag(append)
          IN IF m.stop THEN Stop(d.k, "mode", 0)
             ELSE LET o == sys_open(d.k, filepath, m.oflag)
                  IN IF o.ret < 0
                     THEN Stop(sys_close(o.k, d.ret, eio).k, "open", o.errno)
                     ELSE LET r == sys_dup2(o.k, o.ret, STDERR_FILENO, intr)
                          IN IF r.ret < 0
                             THEN Stop(sys_close(sys_close(r.k, o.ret, eio).k,
                                                 d.ret, eio).k,
                                       "dup2", r.errno)
                             ELSE ReturnAfter(sys_close(r.k, o.ret, eio), d.ret)

begin_redirect_stderr_retfd(k, filepath, append, intr, eio) ==
  LET d == sys_dup(k, STDERR_FILENO)
  IN IF d.ret < 0 THEN Stop(d.k, "dup", d.errno)
     ELSE LET m == get_oflag(append)
          IN IF m.stop THEN Stop(d.k, "mode", 0)
             ELSE LET o == sys_open(d.k, filepath, m.oflag)
                  IN IF o.ret < 0 THEN Stop(o.k, "open", o.errno)
                     ELSE LET r == sys_dup2(o.k, o.ret, STDERR_FILENO, intr)
                          IN IF r.ret < 0 THEN Stop(r.k, "dup2", r.errno)
                             ELSE ReturnAfter(sys_close(r.k, o.ret, eio), o.ret)

begin_redirect_stderr_noclose(k, filepath, append, intr, eio) ==
  LET d == sys_dup(k, STDERR_FILENO)
  IN IF d.ret < 0 THEN Stop(d.k, "dup", d.errno)
     ELSE LET m == get_oflag(append)
          IN IF m.stop THEN Stop(d.k, "mode", 0)
             ELSE LET o == sys_open(d.k, filepath, m.oflag)
                  IN IF o.ret < 0 THEN Stop(o.k, "open", o.errno)
                     ELSE LET r == sys_dup2(o.k, o.ret, STDERR_FILENO, intr)
                          IN IF r.ret < 0 THEN Stop(r.k, "dup2", r.errno)
                             ELSE Return(r.k, d.ret)

begin_redirect_stderr_nodupcheck(k, filepath, append, intr, eio) ==
  LET d == sys_dup(k, STDERR_FILENO)
      m == get_oflag(append)
  IN IF m.stop THEN Stop(d.k, "mode", 0)
     ELSE LET o == sys_open(d.k, filepath, m.oflag)
          IN IF o.ret < 0 THEN Stop(o.k, "open", o.errno)
             ELSE LET r == sys_dup2(o.k, o.ret, STDERR_FILENO, intr)
                  IN IF r.ret < 0 THEN Stop(r.k, "dup2", r.errno)
                     ELSE ReturnAfter(sys_close(r.k, o.ret, eio), d.ret)

begin_redirect_stderr_nodup2check(k, filepath, append, intr, eio) ==
  LET d == sys_dup(k, STDERR_FILENO)
  IN IF d.ret < 0 THEN Stop(d.k, "dup", d.errno)
     ELSE LET m == get_oflag(append)
          IN IF m.stop THEN Stop(d.k, "mode", 0)
             ELSE LET o == sys_open(d.k, filepath, m.oflag)
                  IN IF o.ret < 0 THEN Stop(o.k, "open", o.errno)
                     ELSE LET r == sys_dup2(o.k, o.ret, STDERR_FILENO, intr)
                          IN ReturnAfter(sys_close(r.k, o.ret, eio), d.ret)

begin_redirect_stderr(k, filepath, append, intr, eio) ==
  LET d == sys_dup(k, STDERR_FILENO)
  IN IF d.ret < 0 THEN Stop(d.k, "dup", d.errno)
     ELSE LET m == get_oflag(append)
          IN IF m.stop THEN Stop(d.k, "mode", 0)
             ELSE LET o == sys_open(d.k, filepath, m.oflag)
                  IN IF o.ret < 0 THEN Stop(o.k, "open", o.errno)
                     ELSE LET r == sys_dup2(o.k, o.ret, STDERR_FILENO, intr)
                          IN IF r.ret < 0 THEN Stop(r.k, "dup2", r.errno)
                             ELSE ReturnAfter(sys_close(r.k, o.ret, eio), d.ret)

\* variants of end_redirect_stderr with one slip each
end_redirect_stderr_swapped(k, old_stderr, intr, eio) ==
  LET r == sys_dup2(k, STDERR_FILENO, old_stderr, intr)
  IN IF r.ret < 0 THEN Stop(r.k, "dup2", r.errno)
     ELSE ReturnAfter(sys_close(r.k, old_stderr, eio), r.ret)

end_redirect_stderr_tostdout(k, old_stderr, intr, eio) ==
  LET r == sys_dup2(k, 1, STDERR_FILENO, intr)
  IN IF r.ret < 0 THEN Stop(r.k, "dup2", r.errno)
     ELSE ReturnAfter(sys_close(r.k, old_stderr, eio), r.ret)

end_redirect_stderr_noclose(k, old_stderr, intr, eio) ==
  LET r == sys_dup2(k, old_stderr, STDERR_FILENO, intr)
  IN IF r.ret < 0 THEN Stop(r.k, "dup2", r.errno)
     ELSE Return(r.k, r.ret)

end_redirect_stderr_nocheck(k, old_stderr, intr, eio) ==
  LET r == sys_dup2(k, old_stderr, STDERR_FILENO, intr)
  IN ReturnAfter(sys_close(r.k, old_stderr, eio), r.ret)

end_redirect_stderr_rettoken(k, old_stderr, intr, eio) ==
  LET r == sys_dup2(k, old_stderr, STDERR_FILENO, intr)
  IN IF r.ret < 0 THEN Stop(r.k, "dup2", r.errno)
     ELSE ReturnAfter(sys_close(r.k, old_stderr, eio), old_stderr)

end_redirect_stderr_closeerr(k, old_stderr, intr, eio) ==
  LET r == sys_dup2(k, old_stderr, STDERR_FILENO, intr)
  IN IF r.ret < 0 THEN Stop(r.k, "dup2", r.errno)
     ELSE ReturnAfter(sys_close(r.k, STDERR_FILENO, eio), r.ret)

end_redirect_stderr(k, old_stderr, intr, eio) ==
  LET r == sys_dup2(k, old_stderr, STDERR_FILENO, intr)
  IN IF r.ret < 0 THEN Stop(r.k, "dup2", r.errno)
     ELSE ReturnAfter(sys_close(r.k, old_stderr, eio), r.ret)

\* ------------------------------------------------------------- the caller
\* The caller keeps the token of every begin it has not ended yet (old_fd in
\* the usage of the file header).  A session records what the caller saw at
\* its begin: tok, the path and mode, the descriptor table before the call
\* (fdt0), the table before the first begin of an unbroken chain of pairs
\* (base) and the length of that chain (pairs), the node descriptor 2
\* referred to (dest0), the file at path before the call (prior), the text written to descriptor 2 since (wr),
\* whether only writes happened since (quiet), whether only writes and
\* complete pairs of inner begin and end calls happened since (clean) and
\* how many such pairs (inner), whether some write went through a
\* descriptor other than 2 (others), and the file of the session right
\* below when that one was ended first (orphan).  In the record of a call,
\* nested tells that a begin was made inside a clean session, stale and
\* reused that an end was given the token just ended.
NodeOf(k, fd) == IF IsOpen(k, fd) THEN k.oft[k.fdt[fd]].node ELSE "none"

NoCall == [op |-> "init", path |-> "none", app |-> FALSE, arg |-> 0,
           txt |-> << >>, intr |-> FALSE, live |-> FALSE, ret |-> << >>,
           err |-> "none", errno |-> 0, unchecked |-> 0, nested |-> FALSE,
           stale |-> << >>, reused |-> << >>, pre |-> K]

Call(op, path, app, arg, txt, intr, live, r) ==
  [op |-> op, path |-> path, app |-> app, arg |-> arg, txt |-> txt,
   intr |-> (intr /\ r.errno = EINTR),
   live |-> live, ret |-> r.ret, err |-> r.err, errno |-> r.errno,
   unchecked |-> r.unchecked, nested |-> FALSE, stale |-> << >>,
   reused |-> << >>, pre |-> K]

Disturb(ss) ==
  [i \in DOMAIN ss |-> [ss[i] EXCEPT !.quiet = FALSE, !.orphan = << >>]]
Spoil(ss) ==
  [i \in DOMAIN ss |->
     [ss[i] EXCEPT !.quiet = FALSE, !.clean = FALSE, !.orphan = << >>]]
Live(x) == \E i \in DOMAIN sess.open : sess.open[i].tok = x
Without(ss, x) == SelectSeq(ss, LAMBDA s : s.tok # x)
Ended(x) ==
  LET i == CHOOSE i \in DOMAIN sess.open : sess.open[i].tok = x
  IN IF sess.open[i].quiet THEN <<sess.open[i]>> ELSE << >>
\* what the caller knows besides its open sessions: the session just ended
\* after writes only (ended) or after writes and complete inner pairs only
\* (unwound), a descriptor other code opened on the number of the token
\* just ended (reuse), and the file of an outer session that was ended
\* before the inner one just ended (swapped)
Sessions(open, ended, unwound, reuse, swapped) ==
  [open |-> open, ended |-> ended, unwound |-> unwound, reuse |-> reuse,
   swapped |-> swapped]
\* the sessions left when the token of the top session has been ended
Popped ==
  LET n == Len(sess.open)
      rest == SubSeq(sess.open, 1, n - 1)
  IN IF sess.open[n].clean
     THEN [i \in DOMAIN rest |->
             IF i = n - 1
             THEN [rest[i] EXCEPT !.quiet = FALSE, !.orphan = << >>,
                                  !.inner = @ + 1]
             ELSE [rest[i] EXCEPT !.quiet = FALSE, !.orphan = << >>]]
     ELSE Spoil(rest)
\* the sessions left when the token x of a session below the top has been
\* ended: the session right above it is marked if only writes happened
\* since its begin
Orphaned(x) ==
  LET n == Len(sess.open)
      rest == Spoil(Without(sess.open, x))
  IN IF /\ n >= 2
        /\ sess.open[n - 1].tok = x
        /\ sess.open[n - 1].clean
        /\ sess.open[n].quiet
     THEN [rest EXCEPT ![n - 1].orphan = <<sess.open[n - 1].path>>]
     ELSE rest

Install(k) ==
  /\ nops < MaxOps
  /\ nops' = nops + 1
  /\ fdt' = k.fdt
  /\ oft' = k.oft
  /\ fs' = k.fs
  /\ UNCHANGED <<thr, mtx, res>>

Begin(filepath, append, intr, eio) ==
  /\ Len(sess.open) < MaxNest
  /\ LET r == begin_redirect_stderr(K, filepath, append, intr, eio)
         s == [tok |-> r.ret[1], path |-> filepath, app |-> append,
               fdt0 |-> fdt,
               base |-> IF sess.ended # << >> THEN sess.ended[1].base
                        ELSE fdt,
               pairs |-> IF sess.ended # << >> THEN sess.ended[1].pairs + 1
                         ELSE 1,
               dest0 |-> NodeOf(K, STDERR_FILENO),
               prior |-> IF filepath \in Files THEN fs[filepath] ELSE Absent,
               wr |-> << >>, quiet |-> TRUE, others |-> FALSE,
               clean |-> TRUE, inner |-> 0, orphan |-> << >>]
     IN /\ Install(r.k)
        /\ last' = [Call("begin", filepath, append, 0, << >>, intr, FALSE, r)
                      EXCEPT !.nested = Len(sess.open) > 0
                                          /\ sess.open[Len(sess.open)].clean]
        /\ sess' = Sessions(IF r.err = "none"
                            THEN Append(Disturb(sess.open), s)
                            ELSE Spoil(sess.open),
                            << >>, << >>, << >>, << >>)

\* (the interrupted dup2 is explored in Begin, where nothing else makes
\* dup2 fail; here a closed or invalid x does.  The OS faults are drawn
\* only where the call they hit is reached: no dup2 or close is made for a
\* path that cannot be opened, no close for an x that is not open.)
End(x, eio) ==
  LET r == end_redirect_stderr(K, x, FALSE, eio)
      n == Len(sess.open)
      top == n > 0 /\ sess.open[n].tok = x
  IN /\ Install(r.k)
     /\ last' = [Call("end", "none", FALSE, x, << >>, FALSE, Live(x), r)
                   EXCEPT !.stale = IF sess.ended # << >>
                                       /\ sess.ended[1].tok = x
                                    THEN sess.ended ELSE << >>,
                          !.reused = IF sess.reuse # << >>
                                        /\ sess.reuse[1].tok = x
                                     THEN sess.reuse ELSE << >>]
     /\ sess' = IF r.err = "none" /\ top
                THEN Sessions(Popped, Ended(x),
                              IF sess.open[n].clean THEN <<sess.open[n]>>
                              ELSE << >>,
                              << >>, sess.open[n].orphan)
                ELSE IF r.err = "none" /\ Live(x)
                THEN Sessions(Orphaned(x), << >>, << >>, << >>, << >>)
                ELSE Sessions(Spoil(sess.open), << >>, << >>, << >>, << >>)

\* code of the process writing one character through a descriptor: to
\* standard error, or through a descriptor above it
Write(fd, c) ==
  LET r == sys_write(K, fd, <<c>>)
  IN /\ r.ret >= 0
     /\ \A n \in Nodes : Len(r.k.fs[n].data) <= MaxLen
     /\ Install(r.k)
     /\ last' = Call("write", "none", FALSE, fd, <<c>>, FALSE, FALSE,
                     [ret |-> <<r.ret>>, err |-> "none", errno |-> 0,
                      unchecked |-> 0])
     /\ sess' = [sess EXCEPT !.open = [i \in DOMAIN sess.open |->
                        IF fd = STDERR_FILENO
                        THEN [sess.open[i] EXCEPT !.wr = @ \o <<c>>]
                        ELSE [sess.open[i] EXCEPT !.others = TRUE]]]

\* other code of the process opening a file of its own
OtherOpen(path) ==
  LET r == sys_open(K, path, {O_WRONLY, O_CREAT})
  IN /\ r.ret >= 0
     /\ Install(r.k)
     /\ last' = Call("open", path, FALSE, 0, << >>, FALSE, FALSE,
                     [ret |-> <<r.ret>>, err |-> "none", errno |-> 0,
                      unchecked |-> 0])
     /\ sess' = Sessions(Spoil(sess.open), << >>, << >>,
                         IF sess.ended # << >> /\ sess.ended[1].tok = r.ret
                         THEN <<[tok |-> r.ret, path |-> path]>>
                         ELSE << >>,
                         << >>)

\* the process starts with 0, 1, 2 on the terminal (the R Console); the
\* file P1 exists already and P2 does not
TtyOfd == [node |-> Tty, app |-> TRUE, pos |-> 0]
\* a thread that makes no call; pc is the call the thread makes next, old
\* fd and oflag are the locals old_stderr, fd and oflag of
\* begin_redirect_stderr, tok is the value begin returned to the thread
Idle == [pc |-> "idle", path |-> "none", app |-> FALSE, old |-> -1,
         oflag |-> {}, fd |-> -1, tok |-> -1, err |-> "none"]

Init ==
  /\ fdt = [fd \in FDs |-> IF fd <= STDERR_FILENO THEN 1 ELSE NoOfd]
  /\ oft = [o \in OfdIds |-> IF o = 1 THEN TtyOfd ELSE FreeOfd]
  /\ fs = [n \in Nodes |->
             IF n = Tty THEN [ex |-> TRUE, data |-> << >>]
             ELSE IF n = "P1" THEN [ex |-> TRUE, data |-> <<"a">>]
             ELSE Absent]
  /\ last = [NoCall EXCEPT !.pre = [fdt |-> fdt, oft |-> oft, fs |-> fs]]
  /\ sess = Sessions(<< >>, << >>, << >>, << >>, << >>)
  /\ nops = 0
  /\ thr = [t \in Threads |-> Idle]
  /\ mtx = [serial |-> TRUE, owner |-> 0]
  /\ res = << >>

Next ==
  \/ \E p \in Paths, a \in BOOLEAN : Begin(p, a, FALSE, FALSE)
  \/ nops < MaxFaultOps /\ \E p \in Files, a \in BOOLEAN :
                               Begin(p, a, TRUE, FALSE)
  \/ nops < MaxFaultOps /\ \E p \in Files, a \in BOOLEAN :
                               Begin(p, a, FALSE, TRUE)
  \/ \E x \in -1 .. (MaxFd - 1) : End(x, FALSE)
  \/ nops < MaxFaultOps /\ \E x \in OpenFds(K) : End(x, TRUE)
  \/ \E c \in Chars : Write(STDERR_FILENO, c)
  \/ \E fd \in FDs \ {0, 1, STDERR_FILENO} : Write(fd, "b")
  \/ \E p \in Files : OtherOpen(p)

Spec == Init /\ [][Next]_vars

\* ------------------------------------------- two threads, call by call
\* Each thread runs begin_redirect_stderr(path, app) and then
\* end_redirect_stderr on the token it got, one system call at a time.
\* When the callers serialize (mtx.serial), a thread runs its pair only
\* while it owns the lock, taken before the begin and given back after the
\* end or when a call raised.
Turn(t) == mtx.serial => mtx.owner \in {0, t}
Kernel(k) ==
  /\ fdt' = k.fdt
  /\ oft' = k.oft
  /\ fs' = k.fs
  /\ UNCHANGED <<last, sess, nops, res>>
Raise(t, sys) ==
  /\ thr' = [thr EXCEPT ![t].pc = "failed", ![t].err = sys]
  /\ mtx' = [mtx EXCEPT !.owner = 0]

\* int old_stderr = dup(STDERR_FILENO); if (old_stderr < 0) stop(..)
begin_dup(t) ==
  /\ thr[t].pc = "dup"
  /\ Turn(t)
  /\ LET r == sys_dup(K, STDERR_FILENO)
     IN /\ Kernel(r.k)
        /\ IF r.ret < 0 THEN Raise(t, "dup")
           ELSE /\ thr' = [thr EXCEPT ![t].pc = "open", ![t].old = r.ret]
                /\ mtx' = [mtx EXCEPT !.owner = IF mtx.serial THEN t ELSE 0]

\* int oflag = get_oflag(append); int fd = open(..); if (fd < 0) stop(..)
begin_open(t) ==
  /\ thr[t].pc = "open"
  /\ LET m == get_oflag(thr[t].app)
         o == sys_open(K, thr[t].path, m.oflag)
     IN IF m.stop THEN Kernel(K) /\ Raise(t, "mode")
        ELSE /\ Kernel(o.k)
             /\ IF o.ret < 0
                THEN /\ thr' = [thr EXCEPT ![t].pc = "failed",
                                           ![t].err = "open",
                                           ![t].oflag = m.oflag]
                     /\ mtx' = [mtx EXCEPT !.owner = 0]
                ELSE /\ thr' = [thr EXCEPT ![t].pc = "dup2",
                                           ![t].oflag = m.oflag,
                                           ![t].fd = o.ret]
                     /\ UNCHANGED mtx

\* int res = dup2(fd, STDERR_FILENO); if (res < 0) stop(..)
begin_dup2(t) ==
  /\ thr[t].pc = "dup2"
  /\ LET r == sys_dup2(K, thr[t].fd, STDERR_FILENO, FALSE)
     IN /\ Kernel(r.k)
        /\ IF r.ret < 0 THEN Raise(t, "dup2")
           ELSE thr' = [thr EXCEPT ![t].pc = "close"] /\ UNCHANGED mtx

\* close(fd); return old_stderr;
begin_close(t) ==
  /\ thr[t].pc = "close"
  /\ Kernel(sys_close(K, thr[t].fd, FALSE).k)
  /\ thr' = [thr EXCEPT ![t].pc = "edup2", ![t].tok = thr[t].old]
  /\ UNCHANGED mtx

\* end_redirect_stderr with the two arguments of dup2 exchanged
end_dup2_swapped(t) ==
  /\ thr[t].pc = "edup2"
  /\ LET r == sys_dup2(K, STDERR_FILENO, thr[t].tok, FALSE)
     IN /\ Kernel(r.k)
        /\ IF r.ret < 0 THEN Raise(t, "dup2")
           ELSE thr' = [thr EXCEPT ![t].pc = "eclose"] /\ UNCHANGED mtx

\* int res = dup2(old_stderr, STDERR_FILENO); if (res < 0) stop(..)
end_dup2(t) ==
  /\ thr[t].pc = "edup2"
  /\ LET r == sys_dup2(K, thr[t].tok, STDERR_FILENO, FALSE)
     IN /\ Kernel(r.k)
        /\ IF r.ret < 0 THEN Raise(t, "dup2")
           ELSE thr' = [thr EXCEPT ![t].pc = "eclose"] /\ UNCHANGED mtx

\* close(old_stderr); return res;
end_close(t) ==
  /\ thr[t].pc = "eclose"
  /\ Kernel(sys_close(K, thr[t].tok, FALSE).k)
  /\ thr' = [thr EXCEPT ![t].pc = "done"]
  /\ mtx' = [mtx EXCEPT !.owner = 0]

\* get_oflag(String mode) called directly, as code linked with the
\* component can; res keeps the mode and what the call gave
GetOflag(mode) ==
  /\ res' = <<[mode |-> mode, stop |-> get_oflag_mode(mode).stop,
               oflag |-> get_oflag_mode(mode).oflag]>>
  /\ UNCHANGED <<fdt, oft, fs, last, sess, nops, thr, mtx>>

InitThreads ==
  /\ fdt = [fd \in FDs |-> IF fd <= STDERR_FILENO THEN 1 ELSE NoOfd]
  /\ oft = [o \in OfdIds |-> IF o = 1 THEN TtyOfd ELSE FreeOfd]
  /\ fs = [n \in Nodes |->
             IF n = Tty THEN [ex |-> TRUE, data |-> << >>]
             ELSE IF n = "P1" THEN [ex |-> TRUE, data |-> <<"a">>]
             ELSE Absent]
  /\ last = [NoCall EXCEPT !.pre = [fdt |-> fdt, oft |-> oft, fs |-> fs]]
  /\ sess = Sessions(<< >>, << >>, << >>, << >>, << >>)
  /\ nops = 0
  /\ thr \in [Threads -> {[Idle EXCEPT !.pc = "dup", !.path = p, !.app = a] :
                            p \in Files, a \in BOOLEAN}]
  /\ mtx \in {[serial |-> b, owner |-> 0] : b \in BOOLEAN}
  /\ res = << >>

NextThreads ==
  \/ \E t \in Threads : begin_dup(t)
  \/ \E t \in Threads : begin_open(t)
  \/ \E t \in Threads : begin_dup2(t)
  \/ \E t \in Threads : begin_close(t)
  \/ \E t \in Threads : end_dup2(t)
  \/ \E t \in Threads : end_close(t)
  \/ \E m \in ModeStrings : GetOflag(m)

SpecThreads == InitThreads /\ [][NextThreads]_vars

\* ================================================================ claims
Top == sess.open[Len(sess.open)]
InSession == Len(sess.open) > 0 /\ Top.quiet
Pre == last.pre
\* text placed into data at offset at, as write(2) places it
Splice(data, at, text) ==
  SubSeq(data, 1, at) \o text \o SubSeq(data, at + Len(text) + 1, Len(data))

\* C1: a successful begin followed by end of its token, with only writes in
\* between, leaves descriptor 2 on the open file description (and node) it
\* referred to before the begin, for every path and both modes.
C1_Restoration ==
  sess.ended # << >> =>
    LET e == sess.ended[1]
    IN /\ e.fdt0[STDERR_FILENO] # NoOfd
       /\ fdt[STDERR_FILENO] = e.fdt0[STDERR_FILENO]
       /\ NodeOf(K, STDERR_FILENO) = e.dest0

C1_Witness ==
  /\ sess.ended # << >>
  /\ last.op = "end"
  /\ sess.ended[1].app
  /\ sess.ended[1].path # sess.ended[1].dest0

C3_WriteModeTruncates ==
  InSession /\ ~Top.others /\ ~Top.app /\ Top.prior.ex
            /\ Top.prior.data # << >> =>
    fs[Top.path].data = Top.wr

\* C4: begin(P, append = true) on an absent P in an existing directory,
\* with descriptors to spare and no interrupted call, succeeds, creates P
\* and puts descriptor 2 on it.
C4_AppendCreates ==
  /\ last.op = "begin" /\ last.app /\ last.path \in Files
  /\ ~Pre.fs[last.path].ex
  /\ IsOpen(Pre, STDERR_FILENO)
  /\ Cardinality(FDs \ OpenFds(Pre)) >= 2
  /\ ~last.intr
  => /\ last.err = "none"
     /\ fs[last.path].ex
     /\ NodeOf(K, STDERR_FILENO) = last.path

\* C5: begin(P, append = true) on a file holding C, then text written to
\* standard error, leaves P holding C followed by that text, wherever the
\* offsets of the other descriptors on P stand.
C5_AppendPreserves ==
  InSession /\ ~Top.others /\ Top.app =>
    /\ Top.prior.ex
    /\ fs[Top.path].data = Top.prior.data \o Top.wr

C5_Witness ==
  /\ InSession /\ ~Top.others /\ Top.app
  /\ Top.wr # << >>
  /\ Top.prior.data # << >>
  /\ \E fd \in FDs \ {STDERR_FILENO} :
       /\ NodeOf(K, fd) = Top.path
       /\ oft[fdt[fd]].pos # Len(fs[Top.path].data)

\* C6: in correctly paired calls exactly one saved duplicate of the original
\* standard error is open between a begin and its end (the token: not open
\* before, the only descriptor added, on the description descriptor 2 had),
\* none is open after the end, and after any number of successful pairs the
\* set of open descriptors is the one before the first begin.
C6_SavedDescriptor ==
  /\ InSession =>
       /\ Top.tok \notin OpenFds([fdt |-> Top.fdt0])
       /\ OpenFds(K) = OpenFds([fdt |-> Top.fdt0]) \cup {Top.tok}
       /\ {fd \in FDs \ {STDERR_FILENO} : fdt[fd] # Top.fdt0[fd]} = {Top.tok}
       /\ fdt[Top.tok] = Top.fdt0[STDERR_FILENO]
  /\ sess.ended # << >> =>
       /\ ~IsOpen(K, sess.ended[1].tok)
       /\ fdt = sess.ended[1].fdt0
       /\ OpenFds(K) = OpenFds([fdt |-> sess.ended[1].base])

C6_Witness ==
  /\ sess.ended # << >>
  /\ sess.ended[1].pairs = 2
  /\ last.op = "end"

\* C7: when the open of P fails in begin (P in a missing directory, for
\* one), begin raises an error naming open with a non-zero errno, no file
\* is created and descriptor 2 refers to what it referred to before.
C7_OpenFailure ==
  last.op = "begin" =>
    /\ /\ last.path = NoDirPath
       /\ IsOpen(Pre, STDERR_FILENO)
       /\ OpenFds(Pre) # FDs
       => last.err = "open"
    /\ last.err = "open" =>
         /\ last.errno # 0
         /\ last.ret = << >>
         /\ fs = Pre.fs
         /\ fdt[STDERR_FILENO] = Pre.fdt[STDERR_FILENO]
         /\ oft[fdt[STDERR_FILENO]] = Pre.oft[Pre.fdt[STDERR_FILENO]]

C7_Witness ==
  /\ last.op = "begin"
  /\ last.path = NoDirPath
  /\ last.err = "open"
  /\ last.errno = ENOENT

\* C8 as stated: end(x) raises a dup2 error for every x that is not a live
\* token of begin, the numbers of other open descriptors included.
C8_TokenOpacity ==
  last.op = "end" /\ ~last.live => last.err = "dup2"

\* C8 amended: end(x) raises a dup2 error (EBADF, nothing changed) for every
\* x that names no open descriptor, an already-closed token included; an x
\* that names an open descriptor is accepted whether or not it is a token,
\* and the unmodified live token puts descriptor 2 back on what it saved.
C8_EndRejectsClosed ==
  last.op = "end" =>
    /\ ~IsOpen(Pre, last.arg) =>
         /\ last.err = "dup2"
         /\ last.errno = EBADF
         /\ K = Pre
    /\ IsOpen(Pre, last.arg) =>
         /\ last.err = "none"
         /\ last.arg # STDERR_FILENO =>
              fdt[STDERR_FILENO] = Pre.fdt[last.arg]

C8_Witness ==
  /\ last.op = "end"
  /\ ~last.live
  /\ last.arg \in {0, 1, STDERR_FILENO}
  /\ last.err = "none"

\* C9 as stated: a begin that fails at open or at dup2 closes what it holds,
\* so the set of open descriptors is the one before the call.
C9_FailureCleanup ==
  last.op = "begin" /\ last.err \in {"open", "dup2"} =>
    OpenFds(K) = OpenFds(Pre)

\* C9 amended: a begin that fails at open leaves the duplicate of standard
\* error open, one that fails at dup2 leaves the duplicate and the file
\* descriptor open; the set of open descriptors is the one before the call
\* plus those one or two descriptors.  A begin that fails at dup adds none.
C9_FailureLeaks ==
  last.op = "begin" =>
    /\ last.err = "dup" => fdt = Pre.fdt
    /\ last.err = "open" =>
         \E d \in FDs \ OpenFds(Pre) :
           /\ OpenFds(K) = OpenFds(Pre) \cup {d}
           /\ fdt[d] = Pre.fdt[STDERR_FILENO]
    /\ last.err = "dup2" =>
         \E d, f \in FDs \ OpenFds(Pre) :
           /\ d # f
           /\ OpenFds(K) = OpenFds(Pre) \cup {d, f}
           /\ fdt[d] = Pre.fdt[STDERR_FILENO]
           /\ NodeOf(K, f) = last.path
           /\ fdt[STDERR_FILENO] = Pre.fdt[STDERR_FILENO]

C9_Witness ==
  /\ last.op = "begin"
  /\ last.err = "dup2"
  /\ Cardinality(OpenFds(K)) = Cardinality(OpenFds(Pre)) + 2

C11_TokenOfBegin ==
  last.op = "begin" /\ last.err = "none" =>
    /\ Len(last.ret) = 1
    /\ LET t == last.ret[1]
       IN /\ t >= 0
          /\ IsOpen(K, t)
          /\ t # STDERR_FILENO
          /\ ~IsOpen(Pre, t)
          /\ IsOpen(Pre, STDERR_FILENO)
          /\ fdt[t] = Pre.fdt[STDERR_FILENO]
          /\ oft[fdt[t]] = Pre.oft[Pre.fdt[STDERR_FILENO]]

C11_Witness ==
  /\ last.op = "begin"
  /\ last.err = "none"
  /\ NodeOf(K, last.ret[1]) \in Files

\* C13: after a successful begin(P, M) the descriptor open returned is
\* closed while descriptor 2 is on the file at P, and the open descriptors
\* are those before the call plus the token: nothing else was opened,
\* closed or put on another open file description.
C13_FrameOfBegin ==
  last.op = "begin" /\ last.err = "none" =>
    LET t == last.ret[1]
    IN /\ OpenFds(K) = OpenFds(Pre) \cup {t}
       /\ NodeOf(K, STDERR_FILENO) = last.path
       /\ \A fd \in FDs \ {STDERR_FILENO} : fdt[fd] # fdt[STDERR_FILENO]
       /\ \A fd \in FDs \ {t, STDERR_FILENO} :
            /\ fdt[fd] = Pre.fdt[fd]
            /\ fdt[fd] # NoOfd => oft[fdt[fd]] = Pre.oft[Pre.fdt[fd]]

C13_Witness ==
  /\ last.op = "begin"
  /\ last.err = "none"
  /\ Cardinality(OpenFds(Pre)) > 3

\* C12 as stated: whenever end(t) succeeds, descriptor 2 is open afterwards
\* on what t referred to and t is closed, also when t is 2.
C12_SlotValid ==
  last.op = "end" /\ last.err = "none" =>
    /\ IsOpen(K, STDERR_FILENO)
    /\ fdt[STDERR_FILENO] = Pre.fdt[last.arg]
    /\ ~IsOpen(K, last.arg)

\* C12 amended: whenever end(t) succeeds with t other than 2, descriptor 2
\* is open afterwards on the open file description t referred to and t is
\* closed; end(2) succeeds too and leaves descriptor 2 closed.
C12_SlotValidUnless2 ==
  last.op = "end" /\ last.err = "none" =>
    /\ ~IsOpen(K, last.arg)
    /\ last.arg # STDERR_FILENO =>
         /\ IsOpen(K, STDERR_FILENO)
         /\ fdt[STDERR_FILENO] = Pre.fdt[last.arg]
         /\ oft[fdt[STDERR_FILENO]] = Pre.oft[Pre.fdt[last.arg]]
    /\ \A fd \in FDs \ {STDERR_FILENO, last.arg} : fdt[fd] = Pre.fdt[fd]

C12_Witness ==
  /\ last.op = "end"
  /\ last.err = "none"
  /\ last.arg = STDERR_FILENO
  /\ ~IsOpen(K, STDERR_FILENO)

\* C14: the first of dup, open, dup2 that fails raises an error naming that
\* call with its errno and no later call of the operation runs: a failed
\* dup changes nothing, a failed open leaves only the duplicate behind, a
\* failed dup2 leaves descriptor 2 where it was and closes nothing.
C14_AbortAtFirstFailure ==
  LET dupFails == ~IsOpen(Pre, STDERR_FILENO) \/ OpenFds(Pre) = FDs
      full == Cardinality(FDs \ OpenFds(Pre)) < 2
      noFile == \/ last.path \notin Files
                \/ last.app /\ ~Pre.fs[last.path].ex
  IN /\ last.op = "begin" =>
          /\ last.err \in {"none", "dup", "open", "dup2"}
          /\ last.err = "dup" <=> dupFails
          /\ last.err = "dup" =>
               /\ last.errno = IF IsOpen(Pre, STDERR_FILENO)
                               THEN EMFILE ELSE EBADF
               /\ K = Pre
          /\ last.err = "open" <=> ~dupFails /\ (full \/ noFile)
          /\ last.err = "open" =>
               /\ last.errno = IF full THEN EMFILE ELSE ENOENT
               /\ fs = Pre.fs
               /\ fdt[STDERR_FILENO] = Pre.fdt[STDERR_FILENO]
               /\ Cardinality(OpenFds(K)) = Cardinality(OpenFds(Pre)) + 1
          /\ last.err = "dup2" <=> ~dupFails /\ ~full /\ ~noFile /\ last.intr
          /\ last.err = "dup2" =>
               /\ last.errno = EINTR
               /\ fdt[STDERR_FILENO] = Pre.fdt[STDERR_FILENO]
               /\ Cardinality(OpenFds(K)) = Cardinality(OpenFds(Pre)) + 2
          /\ last.err # "none" => last.ret = << >>
     /\ last.op = "end" =>
          /\ last.err \in {"none", "dup2"}
          /\ last.err = "dup2" <=> ~IsOpen(Pre, last.arg)
          /\ last.err = "dup2" =>
               /\ last.errno = EBADF
               /\ last.ret = << >>
               /\ K = Pre

C14_Witness ==
  /\ last.op = "begin"
  /\ last.err = "dup"
  /\ last.errno = EMFILE

\* C17 as stated: no call of begin or end returns normally after one of its
\* system calls, the two close calls included, reported a failure.
C17_NoSwallowedError ==
  last.op \in {"begin", "end"} /\ last.err = "none" => last.unchecked >= 0

\* C17 amended: a failure of dup, open or dup2 is always raised (a call
\* that returns normally has made all three take effect), while the result
\* of close is not looked at: when close reports a failure the call still
\* returns its normal value.
C17_OnlyCloseSwallowed ==
  /\ last.op = "begin" /\ last.err = "none" =>
       /\ IsOpen(Pre, STDERR_FILENO)
       /\ fdt[last.ret[1]] = Pre.fdt[STDERR_FILENO]
       /\ last.path \in Files /\ fs[last.path].ex
       /\ NodeOf(K, STDERR_FILENO) = last.path
       /\ fdt[STDERR_FILENO] \notin {Pre.fdt[fd] : fd \in FDs}
  /\ last.op = "end" /\ last.err = "none" =>
       /\ IsOpen(Pre, last.arg)
       /\ last.arg # STDERR_FILENO =>
            fdt[STDERR_FILENO] = Pre.fdt[last.arg]
  /\ last.op \in {"begin", "end"} /\ last.unchecked < 0 =>
       /\ last.err = "none"
       /\ Len(last.ret) = 1
       /\ last.op = "end" => last.ret = <<STDERR_FILENO>>
       /\ last.op = "begin" => fdt[last.ret[1]] = Pre.fdt[STDERR_FILENO]

C17_Witness ==
  /\ last.op = "end"
  /\ last.live
  /\ last.unchecked < 0
  /\ last.err = "none"

\* C15: a begin made inside a session that saw only writes and complete
\* inner pairs succeeds whenever the OS calls succeed (nothing detects the
\* nesting); while only writes follow it, its token refers to the open file
\* description of the outer session's file, on a descriptor other than 2;
\* and after the end of that token the description of the outer file is
\* still referenced by an open descriptor, so that end has not released it.
C15_DoubleBeginLeaks ==
  LET n == Len(sess.open)
  IN /\ /\ last.op = "begin" /\ last.nested /\ ~last.intr
        /\ last.path \in Files
        /\ last.app => Pre.fs[last.path].ex
        /\ Cardinality(FDs \ OpenFds(Pre)) >= 2
        => last.err = "none"
     /\ n >= 2 /\ Top.quiet /\ sess.open[n - 1].clean =>
          /\ Top.tok # STDERR_FILENO
          /\ IsOpen(K, Top.tok)
          /\ fdt[Top.tok] = Top.fdt0[STDERR_FILENO]
          /\ NodeOf(K, Top.tok) = sess.open[n - 1].path
          /\ fdt[STDERR_FILENO] # fdt[Top.tok]
     /\ n >= 1 /\ sess.ended # << >> /\ Top.clean /\ Top.inner >= 1 =>
          /\ ~IsOpen(K, sess.ended[1].tok)
          /\ fdt[STDERR_FILENO] = sess.ended[1].fdt0[STDERR_FILENO]
          /\ oft[fdt[STDERR_FILENO]].node = Top.path
          /\ IsOpen(K, Top.tok)

C15_Witness ==
  /\ Len(sess.open) = 2
  /\ last.op = "begin" /\ last.err = "none" /\ last.nested
  /\ Top.quiet
  /\ sess.open[1].clean
  /\ sess.open[1].path # Top.path
  /\ NodeOf(K, Top.tok) = sess.open[1].path

\* C18: when the token of an inner session is ended inside an outer session
\* that saw only writes and complete inner pairs, descriptor 2 is on the
\* outer session's file; when the outer token is ended next, descriptor 2
\* is on the destination it had before the outer begin and the descriptor
\* table is the one before the outer begin.  When the outer token is ended
\* first and the inner token next, descriptor 2 is left on the outer
\* session's file.
C18_NestedUnwind ==
  /\ Len(sess.open) > 0 /\ Top.clean /\ Top.inner >= 1
       /\ sess.unwound # << >> =>
       /\ NodeOf(K, STDERR_FILENO) = Top.path
       /\ fdt[STDERR_FILENO] = sess.unwound[1].fdt0[STDERR_FILENO]
       /\ last.op = "end" => last.err = "none"
  /\ sess.unwound # << >> /\ sess.unwound[1].inner >= 1 =>
       /\ NodeOf(K, STDERR_FILENO) = sess.unwound[1].dest0
       /\ fdt = sess.unwound[1].fdt0
       /\ OpenFds(K) = {fd \in FDs : sess.unwound[1].fdt0[fd] # NoOfd}
  /\ sess.swapped # << >> =>
       /\ NodeOf(K, STDERR_FILENO) = sess.swapped[1]
       /\ sess.swapped[1] \in Files

C18_Witness ==
  /\ last.op = "end" /\ last.err = "none"
  /\ sess.unwound # << >>
  /\ sess.unwound[1].inner >= 1
  /\ sess.unwound[1].dest0 = Tty
  /\ Len(sess.open) = 0

C18_WitnessOtherOrder ==
  /\ last.op = "end" /\ last.err = "none"
  /\ sess.swapped # << >>
  /\ NodeOf(K, STDERR_FILENO) \in Files

\* C19: an end given the token of the session that was just ended, with
\* only writes in between, raises the dup2 error and changes nothing:
\* descriptor 2 is on the destination from before the begin and the
\* descriptor table is the one from before the begin.  When another open
\* took the number of that token in between, the end returns normally and
\* descriptor 2 is on the file of that open.
C19_StaleToken ==
  /\ last.op = "end" /\ last.stale # << >> =>
       /\ last.err = "dup2" /\ last.errno = EBADF
       /\ K = Pre
       /\ fdt = last.stale[1].fdt0
       /\ NodeOf(K, STDERR_FILENO) = last.stale[1].dest0
  /\ last.op = "end" /\ last.reused # << >> =>
       /\ last.err = "none"
       /\ last.ret = <<STDERR_FILENO>>
       /\ NodeOf(K, STDERR_FILENO) = last.reused[1].path
       /\ fdt[STDERR_FILENO] = Pre.fdt[last.arg]
       /\ ~IsOpen(K, last.arg)

C19_Witness ==
  /\ last.op = "end"
  /\ last.stale # << >>
  /\ last.err = "dup2"

C19_WitnessReuse ==
  /\ last.op = "end"
  /\ last.reused # << >>
  /\ last.reused[1].path # Tty
  /\ NodeOf(K, STDERR_FILENO) = last.reused[1].path

\* C16: when the callers do not serialize, both threads can finish with
\* every call having succeeded and descriptor 2 left off its original
\* destination (C16_Witness is such a state); when the two pairs are
\* serialized, once both threads have finished their pair descriptor 2 is
\* on its original open file description and the descriptor table is the
\* original one, and what a thread has saved is always the original
\* destination, never the other thread's file.
C16_SerializedRestores ==
  mtx.serial =>
    /\ (\A t \in Threads : thr[t].pc = "done") =>
         /\ fdt[STDERR_FILENO] = 1
         /\ oft[1] = TtyOfd
         /\ fdt = [fd \in FDs |-> IF fd <= STDERR_FILENO THEN 1 ELSE NoOfd]
    /\ \A t \in Threads :
         thr[t].pc \in {"open", "dup2", "close", "edup2", "eclose"} =>
           fdt[thr[t].old] = 1

C16_Witness ==
  /\ ~mtx.serial
  /\ \A t \in Threads : thr[t].pc = "done" /\ thr[t].err = "none"
  /\ NodeOf(K, STDERR_FILENO) \in Files
  /\ OpenFds(K) = {0, 1, STDERR_FILENO}

\* C20: get_oflag(String) stops for every string other than "w" and "a"
\* and gives the flags of the mode for these two; get_oflag(bool) never
\* stops; no begin_redirect_stderr raises the mode error, and the flags a
\* begin hands to open are those of "w" or of "a", never the value returned
\* after the stop.
C20_ModeTotal ==
  /\ res # << >> =>
       /\ res[1].stop <=> res[1].mode \notin {"w", "a"}
       /\ res[1].mode = "w" => res[1].oflag = {O_WRONLY, O_CREAT}
       /\ res[1].mode = "a" => res[1].oflag = {O_WRONLY, O_APPEND}
  /\ \A b \in BOOLEAN : ~get_oflag(b).stop
  /\ \A t \in Threads :
       /\ thr[t].err # "mode"
       /\ thr[t].pc \in {"dup2", "close", "edup2", "eclose", "done"}
            \/ thr[t].err = "open" =>
            /\ thr[t].oflag # Fallback
            /\ thr[t].oflag = IF thr[t].app THEN {O_WRONLY, O_APPEND}
                              ELSE {O_WRONLY, O_CREAT}

C20_Witness ==
  /\ res # << >> /\ res[1].stop /\ res[1].oflag = Fallback
  /\ \E t \in Threads : thr[t].pc = "done" /\ thr[t].app
  /\ \E t \in Threads : thr[t].pc = "done" /\ ~thr[t].app
====
